---- MODULE Spec2Model ----
(***************************************************************************)
(* A model of calculator.c: the input buffer, the tokenizer, the converter *)
(* loop, the solver and the main read loop.                                *)
(*                                                                         *)
(* Characters are the values of the C type char as the build reads them    *)
(* from the buffer (ASCII codes; a byte of 0xFF is the char -1 where char  *)
(* is signed and 255 where it is unsigned).  A text is a sequence of       *)
(* characters.  A pointer to a Value is NULL or its address in heap.        *)
(***************************************************************************)
EXTENDS Integers, Sequences, FiniteSets, TLC

---------------------------------------------------------------------------
(* Bounds of the model. *)

\* longest line enumerated exhaustively over Alphabet
MaxLen == 3
\* most lines of a script made of SessionLines
MaxScript == 2
\* the most Values the stack's client allocates
MaxValues == 4
\* the most characters the buffer's client loads before it resets
MaxBufLen == 20

---------------------------------------------------------------------------
(* Characters handled by consume_token. *)

ch_tab    == 9
ch_space  == 32
ch_bang   == 33
ch_perc   == 37
ch_oparen == 40
ch_cparen == 41
ch_star   == 42
ch_plus   == 43
ch_minus  == 45
ch_dot    == 46
ch_slash  == 47
ch_lt     == 60
ch_equal  == 61
ch_gt     == 62
ch_quest  == 63
ch_carat  == 94
ch_under  == 95
ch_q      == 113
\* what read_char and consume_char return at the end of the buffer
END_OF_BUFFER == -1
\* create_buf: buffer->cap = 1 << 3
InitialCap == 8
\* char buf[1024] of consume_token
TokBufSize == 1024

\* <ctype.h> in the C locale
isalpha(ch) == (ch \in 65..90) \/ (ch \in 97..122)
isdigit(ch) == ch \in 48..57

TokTypes == {"T_END_BUF", "T_ERROR", "T_PLUS", "T_MINUS", "T_STAR", "T_SLASH",
             "T_PERC", "T_CARAT", "T_LT", "T_GT", "T_LTE", "T_GTE", "T_EQU",
             "T_NEQU", "T_EQUAL", "T_OPAREN", "T_CPAREN", "T_NOT", "T_AND",
             "T_OR", "T_NUM", "T_SYM"}

---------------------------------------------------------------------------
(* The lines readline can return. *)

\* characters enumerated exhaustively: ' ' '+' '<' '=' '!' 'a' '_' '1' '.' '#'
Alphabet == {ch_space, ch_plus, ch_lt, ch_equal, ch_bang, 97, ch_under, 49,
             ch_dot, 35}

RECURSIVE SeqsUpTo(_)
SeqsUpTo(n) ==
    IF n = 0 THEN {<<>>}
    ELSE LET shorter == SeqsUpTo(n - 1)
         IN  shorter \cup {Append(s, c) : s \in {t \in shorter : Len(t) = n - 1},
                                          c \in Alphabet}

\* "a=12+3*(4-1)"
Line_assign == <<97, 61, 49, 50, 43, 51, 42, 40, 52, 45, 49, 41>>
\* "3 + 4 * 2"
Line_342 == <<51, 32, 43, 32, 52, 32, 42, 32, 50>>
\* "(1 + 2) * 3"
Line_123 == <<40, 49, 32, 43, 32, 50, 41, 32, 42, 32, 51>>
\* "2 ^ 3 ^ 2"
Line_pow == <<50, 32, 94, 32, 51, 32, 94, 32, 50>>
\* "(1 + 2"
Line_open == <<40, 49, 32, 43, 32, 50>>
\* "1 + 2)"
Line_close == <<49, 32, 43, 32, 50, 41>>
\* "-3 + 5"
Line_neg == <<45, 51, 32, 43, 32, 53>>
\* "3 - -5"
Line_subneg == <<51, 32, 45, 32, 45, 53>>
\* "x = 5"
Line_setx == <<120, 32, 61, 32, 53>>
\* "x + 1"
Line_getx == <<120, 32, 43, 32, 49>>
\* "y + 1"
Line_gety == <<121, 32, 43, 32, 49>>
\* "1 / 0"
Line_div0 == <<49, 32, 47, 32, 48>>
\* "1 % 0"
Line_mod0 == <<49, 32, 37, 32, 48>>
\* "1 2"
Line_two == <<49, 32, 50>>
\* "\t-*/%^()><=>=" : the operator characters outside Alphabet
Line_ops == <<9, 45, 42, 47, 37, 94, 40, 41, 62, 60, 61, 62, 61>>
\* "1.2.3"
Line_twodots == <<49, 46, 50, 46, 51>>
\* a symbol of as many letters as consume_token's buf has bytes
Line_long == [k \in 1..TokBufSize |-> 97]
\* "1" 0xFF "2" where char is signed, and where it is unsigned
Line_ff_signed == <<49, -1, 50>>
Line_ff_unsigned == <<49, 255, 50>>

NamedLines == {Line_assign, Line_342, Line_123, Line_pow, Line_open,
               Line_close, Line_neg, Line_subneg, Line_setx, Line_getx,
               Line_gety, Line_div0, Line_mod0, Line_two, Line_ops,
               Line_twodots, Line_long, Line_ff_signed, Line_ff_unsigned}

Lines == SeqsUpTo(MaxLen) \cup NamedLines

\* main: the lines taken as commands or as quit
IsHelp(l) == Len(l) > 0 /\ l[1] = ch_quest
IsQuit(l) == l = <<ch_q>>
IsDotCommand(l) == Len(l) > 0 /\ l[1] \in {ch_dot, ch_slash}
IsExpression(l) == ~IsHelp(l) /\ ~IsQuit(l) /\ ~IsDotCommand(l)

\* the text after the '.' or '/'
Rest(l) == SubSeq(l, 2, Len(l))
\* "quit", "solve", "print"
Word_quit == <<113, 117, 105, 116>>
Word_solve == <<115, 111, 108, 118, 101>>
Word_print == <<112, 114, 105, 110, 116>>
IsQuitCommand(l) == Rest(l) = Word_quit
\* the commands tested before 's': they change nothing the model holds
IsEarlierCommand(l) == Len(l) > 1 /\ l[2] \in {104, 97, 114}
IsSolveCommand(l) ==
    /\ ~IsQuitCommand(l) /\ ~IsEarlierCommand(l)
    /\ (Len(l) > 1 /\ l[2] = 115) \/ Rest(l) = Word_solve
IsPrintCommand(l) ==
    /\ ~IsQuitCommand(l) /\ ~IsEarlierCommand(l) /\ ~IsSolveCommand(l)
    /\ ~(Len(l) > 1 /\ l[2] = 118)
    /\ (Len(l) > 1 /\ l[2] = 112) \/ Rest(l) = Word_print

\* ".quit"
Line_dotquit == <<46>> \o Word_quit
\* ".s"
Line_dots == <<46, 115>>
\* ".p x"
Line_dotp == <<46, 112, 32, 120>>
\* "?"
Line_help == <<63>>

\* the lines of the longer scripts
SessionLines == {Line_setx, Line_getx, Line_assign, <<>>, Line_dots,
                 Line_dotp, Line_help, Line_dotquit, <<ch_q>>}

RECURSIVE ScriptsUpTo(_)
ScriptsUpTo(n) ==
    IF n = 0 THEN {<<>>}
    ELSE LET shorter == ScriptsUpTo(n - 1)
         IN  shorter \cup {Append(s, l) : s \in {t \in shorter : Len(t) = n - 1},
                                          l \in SessionLines}

\* what stdin holds: one line of Lines, or up to MaxScript of SessionLines
Scripts == {<<l>> : l \in Lines} \cup ScriptsUpTo(MaxScript)

---------------------------------------------------------------------------
(* The state of the program. *)

VARIABLES
    input,       \* the lines readline has yet to return; NULL after the last
    buffer,      \* *buffer: [buf, cap, len, idx]
    tok,         \* the current token: [type, str]; {-1, NULL} is type "none"
    solve_flag,  \* the global solve_flag
    pc,          \* where main is
    line,        \* main's line: NullLine or LineOf(the text readline returned)
    expr,        \* main's expr: "NULL" or "junk", any other pointer value
    values,      \* main's values: "NULL" or a repo
    repo,        \* convert's repo: [head, tail, crnt]
    heap,        \* the Values convert has allocated, by address
    toks,        \* history: the tokens consume_token gave for this line
    printed,     \* history: the numbers printed since the last prompt
    errout,      \* history: the kinds of message on stderr since the last prompt
    setx_solved, \* history: solve has run on the line "x = 5"
    stack,       \* history: the Values pushed and not yet popped, last first
    ret          \* history: the last repo or buffer call: [op, val, top]

vars == <<input, buffer, tok, solve_flag, pc, line, expr, values, repo, heap, toks,
          printed, errout, setx_solved, stack, ret>>

NullLine == [null |-> TRUE, text |-> <<>>]
\* no repo or buffer call has been made
NoCall == [op |-> "none", val |-> 0, top |-> 0]
LineOf(l) == [null |-> FALSE, text |-> l]

\* a value an uninitialised object or a missing return can hold
Indeterminate == {0, 1}

---------------------------------------------------------------------------
(* The input buffer. *)

create_buf == [buf |-> <<>>, cap |-> InitialCap, len |-> 0, idx |-> 0]

reset_buf(b) == [b EXCEPT !.buf = <<>>, !.idx = 0, !.len = 0]

\* load_buf's doubling as it would be with an if for its while
grow_cap_once(cap, need) == IF need > cap THEN cap * 2 ELSE cap

RECURSIVE grow_cap(_, _)
grow_cap(cap, need) == IF need > cap THEN grow_cap(cap * 2, need) ELSE cap

load_buf(b, str) ==
    [b EXCEPT !.cap = grow_cap(b.cap, b.len + Len(str) + 1),
              !.buf = SubSeq(b.buf, 1, b.len) \o str,
              !.len = b.len + Len(str)]

\* read_char as it would be if the end of the buffer read as a NUL character
read_char_nul(b, i) == IF i < b.len THEN b.buf[i + 1] ELSE 0

\* the character at idx i of the buffer, or -1 at the end of the buffer
read_char(b, i) == IF i < b.len THEN b.buf[i + 1] ELSE END_OF_BUFFER

\* the index of buf that read_char and consume_char read at idx i: none, -1,
\* at the end of the buffer
index_read(b, i) == IF i < b.len THEN i ELSE -1

\* the idx consume_char leaves
consume_char(b, i) == IF i < b.len THEN i + 1 ELSE i

---------------------------------------------------------------------------
(* The tokenizer.  A scan gives [type, str, idx]: the token and the idx     *)
(* the buffer is left at.                                                   *)

Scan(type, str, i) == [type |-> type, str |-> str, idx |-> i]

\* the least number of a set of numbers that is not empty
Least(S) == CHOOSE x \in S : \A y \in S : x <= y

\* read_symbol as it would be with an if for its while: one character only
read_symbol_once(b, str, i) ==
    [str |-> Append(str, read_char(b, i)), idx |-> consume_char(b, i)]

\* read_symbol's loop stores and consumes letters and '_' up to the first
\* character that is neither, or that reads as less than 0; it leaves the
\* cursor there
read_symbol(b, str, i) ==
    LET stops == {k \in i..b.len : ~(isalpha(read_char(b, k)) \/ read_char(b, k) = ch_under)}
        j     == Least(stops)
    IN  [str |-> str \o SubSeq(b.buf, i + 1, j), idx |-> j]

\* read_number's loop, the same for digits and '.'
read_number(b, str, i) ==
    LET stops == {k \in i..b.len : ~(isdigit(read_char(b, k)) \/ read_char(b, k) = ch_dot)}
        j     == Least(stops)
    IN  [str |-> str \o SubSeq(b.buf, i + 1, j), idx |-> j]

\* str_to_num, which nothing calls, on a text of digits and '.': strtod
\* reads up to a second '.', and what it leaves makes the result 0 with a
\* message on stderr
str_to_num(buf) ==
    IF Cardinality({k \in 1..Len(buf) : buf[k] = ch_dot}) > 1
    THEN [num |-> <<48>>, message |-> "invalid floating point number"]
    ELSE [num |-> buf, message |-> "none"]

\* case '+' etc.: one character, one token
one_char(b, type, ch, i) == Scan(type, <<ch>>, consume_char(b, i))

\* lookahead as it would be without the second consume_char
lookahead_peek_only(b, one, two, ch, i) ==
    LET j   == consume_char(b, i)
        ch2 == read_char(b, j)
    IN  IF ch2 = ch_equal
        THEN Scan(two, <<ch, ch2>>, j)
        ELSE Scan(one, <<ch>>, j)

\* case '<' etc.: the token is `two` when the next character is '='
lookahead(b, one, two, ch, i) ==
    LET j   == consume_char(b, i)
        ch2 == read_char(b, j)
    IN  IF ch2 = ch_equal
        THEN Scan(two, <<ch, ch2>>, consume_char(b, j))
        ELSE Scan(one, <<ch>>, j)

\* the default case, for a character that is no error
scan_word(b, ch, i) ==
    IF isalpha(ch) \/ ch = ch_under
    THEN LET r == read_symbol(b, <<>>, i) IN Scan("T_SYM", r.str, r.idx)
    ELSE LET r == read_number(b, <<>>, i) IN Scan("T_NUM", r.str, r.idx)

\* the default case as it would be without its consume_char
scan_error_stay(b, ch, i) == Scan("T_ERROR", <<>>, i)

\* the default case, for a character that is neither a letter nor a digit
scan_error(b, ch, i) == Scan("T_ERROR", <<>>, consume_char(b, i))

RECURSIVE consume_token(_, _)
consume_token(b, i) ==
    LET ch == read_char(b, i)
    IN  CASE ch \in {ch_space, ch_tab} -> consume_token(b, consume_char(b, i))
          [] ch = ch_plus   -> one_char(b, "T_PLUS", ch, i)
          [] ch = ch_minus  -> one_char(b, "T_MINUS", ch, i)
          [] ch = ch_star   -> one_char(b, "T_STAR", ch, i)
          [] ch = ch_slash  -> one_char(b, "T_SLASH", ch, i)
          [] ch = ch_perc   -> one_char(b, "T_PERC", ch, i)
          [] ch = ch_carat  -> one_char(b, "T_CARAT", ch, i)
          [] ch = ch_oparen -> one_char(b, "T_OPAREN", ch, i)
          [] ch = ch_cparen -> one_char(b, "T_CPAREN", ch, i)
          [] ch = ch_lt     -> lookahead(b, "T_LT", "T_LTE", ch, i)
          [] ch = ch_gt     -> lookahead(b, "T_GT", "T_GTE", ch, i)
          [] ch = ch_equal  -> lookahead(b, "T_EQUAL", "T_EQU", ch, i)
          [] ch = ch_bang   -> lookahead(b, "T_NOT", "T_NEQU", ch, i)
          [] OTHER ->
                IF ch = END_OF_BUFFER THEN Scan("T_END_BUF", <<>>, i)
                ELSE IF isalpha(ch) \/ ch = ch_under \/ isdigit(ch)
                     THEN scan_word(b, ch, i)
                     ELSE scan_error(b, ch, i)

---------------------------------------------------------------------------
(* Values and the value repository.  A Value is [ttype, name, next]; next   *)
(* is NULL, an address, or UNINIT as malloc left it.                        *)

NULL == 0
UNINIT == -1

\* create_value sets every field but next; convert's call names no
\* arguments, and the model records the current token in the Value
create_value(hp, ttype, name) ==
    Append(hp, [ttype |-> ttype, name |-> name, next |-> UNINIT])

create_repo == [head |-> NULL, tail |-> NULL, crnt |-> NULL]

\* push gives the repo and the heap it leaves; val->next is written before
\* val is tested, so a NULL val is a fault
push(rp, hp, val) ==
    [repo  |-> IF val # NULL THEN [rp EXCEPT !.head = val] ELSE rp,
     heap  |-> IF val # NULL THEN [hp EXCEPT ![val].next = rp.head] ELSE hp,
     fault |-> val = NULL]

\* pop as it would be if it returned the head and left it in place
pop_keep(rp, hp) == [val |-> rp.head, repo |-> rp]

\* pop gives the Value's address, or NULL, and the repo it leaves
pop(rp, hp) ==
    IF rp.head # NULL
    THEN [val |-> rp.head, repo |-> [rp EXCEPT !.head = hp[rp.head].next]]
    ELSE [val |-> NULL, repo |-> rp]

peek(rp) == rp.head

\* append gives the repo and the heap it leaves
append(rp, hp, val) ==
    [repo |-> [rp EXCEPT !.tail = val],
     heap |-> IF rp.tail # NULL /\ val # NULL
              THEN [hp EXCEPT ![rp.tail].next = val]
              ELSE hp]

reset(rp) == [rp EXCEPT !.crnt = rp.head]

\* get gives the Value's address, or "NULL", and the repo it leaves
get(rp, hp) ==
    IF rp.crnt # NULL
    THEN [val |-> rp.crnt, repo |-> [rp EXCEPT !.crnt = hp[rp.crnt].next]]
    ELSE [val |-> NULL, repo |-> rp]

\* the Values a reader gets from the repo with reset and then get until
\* NULL; an uninitialised next ends the walk with a wild Value
RECURSIVE get_all(_, _)
get_all(rp, hp) ==
    IF rp.crnt = UNINIT THEN <<[ttype |-> "wild", name |-> <<>>]>>
    ELSE LET g == get(rp, hp)
         IN  IF g.val = NULL THEN <<>>
             ELSE <<[ttype |-> hp[g.val].ttype, name |-> hp[g.val].name]>>
                  \o get_all(g.repo, hp)

Queue(rp, hp) == get_all(reset(rp), hp)

---------------------------------------------------------------------------
(* main, convert and solve. *)

Init ==
    /\ input \in Scripts
    /\ buffer = create_buf
    /\ tok = [type |-> "none", str |-> <<>>]
    /\ solve_flag = TRUE
    /\ pc = "readline"
    /\ line = NullLine
    /\ expr = "NULL"
    /\ values = "NULL"
    /\ repo = create_repo
    /\ heap = <<>>
    /\ toks = <<>>
    /\ printed = <<>>
    /\ errout = {}
    /\ setx_solved = FALSE
    /\ stack = <<>>
    /\ ret = NoCall

\* the line readline returns
NextLine == Head(input)

\* readline returns NULL: main goes on to load_buf(NULL), and strlen(NULL)
\* ends the process
ReadNull ==
    /\ pc = "readline"
    /\ input = <<>>
    /\ pc' = "crash"
    /\ buffer' = reset_buf(buffer)
    /\ printed' = <<>>
    /\ UNCHANGED <<input, tok, solve_flag, line, expr, values, repo, heap,
                   toks, errout, setx_solved, stack, ret>>

\* "?..." : show_help and continue
ReadHelp ==
    /\ pc = "readline"
    /\ input # <<>>
    /\ input' = Tail(input)
    /\ IsHelp(NextLine)
    /\ printed' = <<>>
    /\ UNCHANGED <<buffer, tok, solve_flag, pc, line, expr, values, repo,
                   heap, toks, errout, setx_solved, stack, ret>>

\* "q": finished, and the loop ends
ReadQuit ==
    /\ pc = "readline"
    /\ input # <<>>
    /\ input' = Tail(input)
    /\ IsQuit(NextLine)
    /\ pc' = "done"
    /\ line' = LineOf(NextLine)
    /\ printed' = <<>>
    /\ UNCHANGED <<buffer, tok, solve_flag, expr, values, repo, heap, toks,
                   errout, setx_solved, stack, ret>>


\* a '.' or '/' command other than print: quit ends the loop, solve toggles
\* solve_flag, the others print; then continue
ReadDotCommand ==
    /\ pc = "readline"
    /\ input # <<>>
    /\ input' = Tail(input)
    /\ IsDotCommand(NextLine)
    /\ ~IsPrintCommand(NextLine)
    /\ pc' = IF IsQuitCommand(NextLine) THEN "done" ELSE "readline"
    /\ line' = IF IsQuitCommand(NextLine) THEN LineOf(NextLine) ELSE NullLine
    /\ solve_flag' = IF IsSolveCommand(NextLine) THEN ~solve_flag ELSE solve_flag
    /\ printed' = <<>>
    /\ UNCHANGED <<buffer, tok, expr, values, repo, heap, toks, errout,
                   setx_solved, stack, ret>>

\* get_var has no return statement: the double printed is indeterminate
get_var(name) == Indeterminate

\* ".p var": printf("%s = %0.3f\n", vname, get_var(vname)), where parse_var
\* has no return statement either: the %s reads through an indeterminate
\* pointer, which prints or ends the process
ReadPrintCommand ==
    /\ pc = "readline"
    /\ input # <<>>
    /\ input' = Tail(input)
    /\ IsDotCommand(NextLine)
    /\ IsPrintCommand(NextLine)
    /\ \/ \E v \in get_var(Rest(NextLine)) : printed' = <<v>> /\ pc' = "readline"
       \/ printed' = <<>> /\ pc' = "crash"
    /\ UNCHANGED <<buffer, tok, solve_flag, line, expr, values, repo, heap,
                   toks, errout, setx_solved, stack, ret>>

\* an expression, or an empty line: reset_buf, load_buf, and convert begins
\* with a new repo (add_history and free_expr, which the file does not
\* define, change nothing the model holds)
ReadExpr ==
    /\ pc = "readline"
    /\ input # <<>>
    /\ input' = Tail(input)
    /\ IsExpression(NextLine)
    /\ line' = LineOf(NextLine)
    /\ buffer' = load_buf(reset_buf(buffer), NextLine)
    /\ repo' = create_repo
    /\ heap' = <<>>
    /\ toks' = <<>>
    /\ printed' = <<>>
    /\ errout' = {}
    /\ pc' = "convert"
    /\ UNCHANGED <<tok, solve_flag, expr, values, setx_solved, stack, ret>>

\* what consume_token leaves in tok
NextScan == consume_token(buffer, buffer.idx)
NextTok == [type |-> NextScan.type, str |-> NextScan.str]

\* convert's loop, for a token other than T_END_BUF: a Value is appended
ConvertToken ==
    /\ pc = "convert"
    /\ NextScan.type # "T_END_BUF"
    /\ Len(NextScan.str) < TokBufSize
    /\ tok' = NextTok
    /\ buffer' = [buffer EXCEPT !.idx = NextScan.idx]
    /\ errout' = IF NextScan.type = "T_ERROR" THEN errout \cup {"unhandled character"}
                 ELSE errout
    /\ LET hp == create_value(heap, NextScan.type, NextScan.str)
           a  == append(repo, hp, Len(hp))
       IN  repo' = a.repo /\ heap' = a.heap
    /\ toks' = Append(toks, NextTok)
    /\ UNCHANGED <<input, solve_flag, pc, line, expr, values, printed, setx_solved, stack, ret>>

\* what strdup may find after a buf that holds no NUL: nothing, or a byte
\* of the stack
Junk == {<<>>, <<1>>}

\* convert's loop, for a run of letters or of digits and '.' that fills buf
\* or more: read_symbol and read_number write it all, past the end of buf
\* when it is longer, and leave no NUL in buf for strdup to stop at.  The
\* process ends there, or goes on with whatever text strdup found.
TokenOverflow ==
    /\ pc = "convert"
    /\ NextScan.type # "T_END_BUF"
    /\ Len(NextScan.str) >= TokBufSize
    /\ \/ /\ pc' = "crash"
          /\ UNCHANGED <<buffer, tok, repo, heap, toks>>
       \/ \E junk \in Junk :
             LET t  == [type |-> NextScan.type, str |-> NextScan.str \o junk]
                 hp == create_value(heap, t.type, t.str)
                 a  == append(repo, hp, Len(hp))
             IN  /\ tok' = t
                 /\ buffer' = [buffer EXCEPT !.idx = NextScan.idx]
                 /\ repo' = a.repo
                 /\ heap' = a.heap
                 /\ toks' = Append(toks, t)
                 /\ pc' = pc
    /\ UNCHANGED <<input, solve_flag, line, expr, values, printed, errout,
                   setx_solved, stack, ret>>

\* convert's loop at T_END_BUF: convert ends without a return statement,
\* and main's expr is indeterminate
ConvertEnd ==
    /\ pc = "convert"
    /\ NextScan.type = "T_END_BUF"
    /\ tok' = NextTok
    /\ buffer' = [buffer EXCEPT !.idx = NextScan.idx]
    /\ expr' \in {"NULL", "junk"}
    /\ pc' = "converted"
    /\ UNCHANGED <<input, solve_flag, line, values, repo, heap, toks, printed,
                   errout, setx_solved, stack, ret>>

\* if(solve_flag) solve(expr): solve has an empty body
Solve ==
    /\ pc = "converted"
    /\ pc' = "solved"
    /\ setx_solved' = (setx_solved \/ (solve_flag /\ line = LineOf(Line_setx)))
    /\ UNCHANGED <<input, buffer, tok, solve_flag, line, expr, values, repo, heap,
                   toks, printed, errout, stack, ret>>

\* back to the top of the loop: line is freed; the repo of the last
\* convert is out of reach, and the histories start again
NextIteration ==
    /\ pc = "solved"
    /\ pc' = "readline"
    /\ line' = NullLine
    /\ repo' = create_repo
    /\ heap' = <<>>
    /\ toks' = <<>>
    /\ printed' = <<>>
    /\ errout' = {}
    /\ UNCHANGED <<input, buffer, tok, solve_flag, expr, values, setx_solved, stack, ret>>

Next ==
    \/ ReadNull
    \/ ReadHelp
    \/ ReadQuit
    \/ ReadDotCommand
    \/ ReadPrintCommand
    \/ ReadExpr
    \/ ConvertToken
    \/ TokenOverflow
    \/ ConvertEnd
    \/ Solve
    \/ NextIteration

Spec == Init /\ [][Next]_vars

\* convert's loop runs on from one consume_token to the next: it waits for
\* nothing
SpecFair ==
    Spec /\ WF_vars(ConvertToken) /\ WF_vars(TokenOverflow) /\ WF_vars(ConvertEnd)

---------------------------------------------------------------------------
(* The tokenizer's claims.  The reference tokenization is stated over the   *)
(* text alone, by maximal munch, without the buffer or its cursor.          *)

Blanks == {ch_space, ch_tab}
Letters == (65..90) \cup (97..122) \cup {ch_under}
Digits == 48..57
NumChars == Digits \cup {ch_dot}
LookaheadChars == {ch_lt, ch_gt, ch_equal, ch_bang}

SingleType(c) ==
    CASE c = ch_plus -> "T_PLUS"   [] c = ch_minus -> "T_MINUS"
      [] c = ch_star -> "T_STAR"   [] c = ch_slash -> "T_SLASH"
      [] c = ch_perc -> "T_PERC"   [] c = ch_carat -> "T_CARAT"
      [] c = ch_oparen -> "T_OPAREN" [] c = ch_cparen -> "T_CPAREN"
SingleChars == {ch_plus, ch_minus, ch_star, ch_slash, ch_perc, ch_carat,
                ch_oparen, ch_cparen}
OneType(c) ==
    CASE c = ch_lt -> "T_LT" [] c = ch_gt -> "T_GT"
      [] c = ch_equal -> "T_EQUAL" [] c = ch_bang -> "T_NOT"
TwoType(c) ==
    CASE c = ch_lt -> "T_LTE" [] c = ch_gt -> "T_GTE"
      [] c = ch_equal -> "T_EQU" [] c = ch_bang -> "T_NEQU"

\* the length of the longest prefix of s made of characters of set
RunLength(s, set) ==
    Least({n \in 0..Len(s) : n = Len(s) \/ s[n + 1] \notin set})

Token(type, str) == [type |-> type, str |-> str]
Drop(s, n) == SubSeq(s, n + 1, Len(s))

\* the tokens of a text; a character the reference says nothing of gives
\* one token of type "unspecified"
RECURSIVE RefTokens(_)
RefTokens(s) ==
    IF s = <<>> THEN <<>>
    ELSE LET c == Head(s)
         IN  CASE c \in Blanks -> RefTokens(Drop(s, RunLength(s, Blanks)))
               [] c \in SingleChars ->
                    <<Token(SingleType(c), <<c>>)>> \o RefTokens(Tail(s))
               [] c \in LookaheadChars ->
                    IF Len(s) > 1 /\ s[2] = ch_equal
                    THEN <<Token(TwoType(c), <<c, ch_equal>>)>> \o RefTokens(Drop(s, 2))
                    ELSE <<Token(OneType(c), <<c>>)>> \o RefTokens(Tail(s))
               [] c \in Letters ->
                    LET n == RunLength(s, Letters)
                    IN  <<Token("T_SYM", SubSeq(s, 1, n))>> \o RefTokens(Drop(s, n))
               [] c \in Digits ->
                    LET n == RunLength(s, NumChars)
                    IN  <<Token("T_NUM", SubSeq(s, 1, n))>> \o RefTokens(Drop(s, n))
               [] OTHER -> <<Token("unspecified", <<c>>)>> \o RefTokens(Tail(s))

\* the texts C1 speaks of: its characters only, each '.' inside a number
C1Covers(s) ==
    /\ Len(s) < TokBufSize
    /\ \A k \in 1..Len(s) :
          s[k] \in Blanks \cup SingleChars \cup LookaheadChars \cup Letters \cup NumChars
    /\ \A k \in 1..Len(RefTokens(s)) : RefTokens(s)[k].type # "unspecified"

\* SYM(a), EQUAL, NUM(12), PLUS, NUM(3), STAR, OPAREN, NUM(4), MINUS, NUM(1), CPAREN
Tokens_assign ==
    << Token("T_SYM", <<97>>), Token("T_EQUAL", <<61>>), Token("T_NUM", <<49, 50>>),
       Token("T_PLUS", <<43>>), Token("T_NUM", <<51>>), Token("T_STAR", <<42>>),
       Token("T_OPAREN", <<40>>), Token("T_NUM", <<52>>), Token("T_MINUS", <<45>>),
       Token("T_NUM", <<49>>), Token("T_CPAREN", <<41>>) >>

Converting == pc \in {"convert", "converted"}

\* C1: on a text of blanks, operator characters, letters/underscore, digits
\* and '.', the tokens consume_token has given so far are the first tokens
\* of the reference maximal-munch tokenization; when convert's loop has
\* ended they are all of them and the last token is T_END_BUF at the end of
\* the text; "a=12+3*(4-1)" gives SYM(a) EQUAL NUM(12) PLUS NUM(3) STAR
\* OPAREN NUM(4) MINUS NUM(1) CPAREN.
C1_MaximalMunch ==
    (Converting /\ C1Covers(line.text)) =>
        /\ Len(toks) <= Len(RefTokens(line.text))
        /\ toks = SubSeq(RefTokens(line.text), 1, Len(toks))
        /\ pc = "converted" =>
              /\ toks = RefTokens(line.text)
              /\ tok = Token("T_END_BUF", <<>>)
              /\ buffer.idx = buffer.len
              /\ line.text = Line_assign => toks = Tokens_assign

\* the example of C1 has been tokenized to its end
C1_Witness ==
    /\ pc = "converted"
    /\ line.text = Line_assign
    /\ Len(toks) = 11
    /\ tok.type = "T_END_BUF"

\* a text with a run of two letters and a number with a '.' has been
\* tokenized to its end
C1_WitnessRuns ==
    /\ pc = "converted"
    /\ C1Covers(line.text)
    /\ \E k \in 1..Len(toks) : toks[k].type = "T_SYM" /\ Len(toks[k].str) = 2

\* the idx of the first character at or after the cursor that is no blank
FirstNonBlank == buffer.idx + RunLength(Drop(buffer.buf, buffer.idx), Blanks)
\* the character consume_token meets first, for a cursor not at the end
MetChar == buffer.buf[FirstNonBlank + 1]
AtChar == pc = "convert" /\ FirstNonBlank < buffer.len

\* C2: when consume_token meets '<', '>', '=' or '!' followed by '=', the
\* token is T_LTE, T_GTE, T_EQU or T_NEQU with the two characters as text
\* and the cursor is 2 past the first; followed by anything else, or by the
\* end of the buffer, the token is T_LT, T_GT, T_EQUAL or T_NOT with one
\* character as text, the cursor is 1 past it, and the next read is of the
\* peeked character.
C2_Lookahead ==
    [][(AtChar /\ MetChar \in LookaheadChars) =>
         LET p == FirstNonBlank
             c == MetChar
         IN  IF p + 1 < buffer.len /\ buffer.buf[p + 2] = ch_equal
             THEN /\ tok' = Token(TwoType(c), <<c, ch_equal>>)
                  /\ buffer'.idx = p + 2
             ELSE /\ tok' = Token(OneType(c), <<c>>)
                  /\ buffer'.idx = p + 1
                  /\ read_char(buffer', buffer'.idx)
                        = (IF p + 1 < buffer.len THEN buffer.buf[p + 2] ELSE END_OF_BUFFER)
      ]_vars

\* "<=" has been read as one token, after a blank
C2_WitnessTwo ==
    /\ pc = "convert"
    /\ tok = Token("T_LTE", <<ch_lt, ch_equal>>)
    /\ buffer.idx = 3
    /\ buffer.buf[1] = ch_space

\* the characters C10 speaks of
C10Chars(c) == c \notin Blanks \cup SingleChars \cup LookaheadChars \cup Letters \cup Digits

\* C10: when consume_token meets a character that is no blank, no operator
\* character, no letter or underscore and no digit, the token is T_ERROR
\* with that character as its text and the cursor is 1 past it.
C10_ErrorToken ==
    [][(AtChar /\ C10Chars(MetChar)) =>
         /\ tok' = Token("T_ERROR", <<MetChar>>)
         /\ buffer'.idx = FirstNonBlank + 1
      ]_vars

---------------------------------------------------------------------------
(* The converter's claims. *)

precedence(op) ==
    CASE op \in {"T_PLUS", "T_MINUS"} -> 5
      [] op \in {"T_STAR", "T_SLASH", "T_PERC"} -> 6
      [] op = "T_CARAT" -> 8
      [] op \in {"T_LT", "T_GT", "T_LTE", "T_GTE"} -> 4
      [] op \in {"T_EQU", "T_NEQU"} -> 3
      [] op \in {"T_EQUAL", "T_OPAREN", "T_CPAREN"} -> 0
      [] op = "T_NOT" -> 7
      [] op = "T_AND" -> 2
      [] op = "T_OR" -> 1
      [] op \in {"T_NUM", "T_SYM"} -> 10
      [] OTHER -> -1

OperandTypes == {"T_NUM", "T_SYM"}
OperatorTypes == {"T_PLUS", "T_MINUS", "T_STAR", "T_SLASH", "T_PERC", "T_CARAT",
                  "T_LT", "T_GT", "T_LTE", "T_GTE", "T_EQU", "T_NEQU", "T_EQUAL",
                  "T_NOT", "T_AND", "T_OR"}
\* the right-associative operators of the operator table
RightAssoc == {"T_CARAT", "T_NOT", "T_EQUAL"}

\* operator x pops operator y off the stack
Pops(x, y) ==
    /\ y # "T_OPAREN"
    /\ \/ x \notin RightAssoc /\ precedence(x) <= precedence(y)
       \/ x \in RightAssoc /\ precedence(x) < precedence(y)

\* the number of entries at the top of stack st that operator x pops
PopCount(x, st) ==
    CHOOSE n \in 0..Len(st) :
        /\ \A k \in 1..n : Pops(x, st[k].type)
        /\ n = Len(st) \/ ~Pops(x, st[n + 1].type)

\* the entries of st above its first open-parenthesis
AboveParen(st) == RunLength([k \in 1..Len(st) |-> st[k].type], TokTypes \ {"T_OPAREN"})

\* the postfix sequence of the tokens ts, with stack st (top first) and
\* output out so far
RECURSIVE ShuntingYard(_, _, _)
ShuntingYard(ts, st, out) ==
    IF ts = <<>> THEN out \o st
    ELSE LET t == Head(ts)
         IN  CASE t.type \in OperandTypes ->
                    ShuntingYard(Tail(ts), st, Append(out, t))
               [] t.type = "T_OPAREN" ->
                    ShuntingYard(Tail(ts), <<t>> \o st, out)
               [] t.type = "T_CPAREN" ->
                    LET n == AboveParen(st)
                    IN  ShuntingYard(Tail(ts), Drop(st, n + 1), out \o SubSeq(st, 1, n))
               [] OTHER ->
                    LET n == PopCount(t.type, st)
                    IN  ShuntingYard(Tail(ts), <<t>> \o Drop(st, n),
                                     out \o SubSeq(st, 1, n))

\* the depth of parentheses after each token, and whether they balance
RECURSIVE Depths(_, _)
Depths(ts, d) ==
    IF ts = <<>> THEN <<d>>
    ELSE <<d>> \o Depths(Tail(ts), CASE Head(ts).type = "T_OPAREN" -> d + 1
                                     [] Head(ts).type = "T_CPAREN" -> d - 1
                                     [] OTHER -> d)
Balanced(ts) ==
    LET ds == Depths(ts, 0)
    IN  (\A k \in 1..Len(ds) : ds[k] >= 0) /\ ds[Len(ds)] = 0

\* an infix token stream: operands, operators and balanced parentheses
InfixTypes == OperandTypes \cup OperatorTypes \cup {"T_OPAREN", "T_CPAREN"}
WellFormed(ts) ==
    /\ ts # <<>>
    /\ \A k \in 1..Len(ts) : ts[k].type \in InfixTypes
    /\ ts[1].type \in OperandTypes \cup {"T_OPAREN"}
    /\ ts[Len(ts)].type \in OperandTypes \cup {"T_CPAREN"}
    /\ Balanced(ts)

\* the Value convert makes of a token
AsValue(t) == [ttype |-> t.type, name |-> t.str]
Values(ts) == [k \in 1..Len(ts) |-> AsValue(ts[k])]
Num(c) == AsValue(Token("T_NUM", <<c>>))
Op(type, c) == AsValue(Token(type, <<c>>))

\* what the evaluator reads of the repo convert has built
Postfix == Queue(repo, heap)

\* C3: the repo convert has built of a well-formed token stream holds the
\* shunting-yard postfix sequence of the tokens; "3 + 4 * 2" gives 3 4 2 * +,
\* "(1 + 2) * 3" gives 1 2 + 3 *, and "2 ^ 3 ^ 2" gives 2 3 2 ^ ^.
C3_Postfix ==
    (pc = "converted" /\ WellFormed(toks)) =>
        /\ Postfix = Values(ShuntingYard(toks, <<>>, <<>>))
        /\ line.text = Line_342 =>
              Postfix = <<Num(51), Num(52), Num(50), Op("T_STAR", 42), Op("T_PLUS", 43)>>
        /\ line.text = Line_123 =>
              Postfix = <<Num(49), Num(50), Op("T_PLUS", 43), Num(51), Op("T_STAR", 42)>>
        /\ line.text = Line_pow =>
              Postfix = <<Num(50), Num(51), Num(50), Op("T_CARAT", 94), Op("T_CARAT", 94)>>

\* C4: when the parentheses of the tokens do not balance, convert reports a
\* syntax error and solve does not run.
C4_Unbalanced ==
    (pc \in {"converted", "solved"} /\ ~Balanced(toks)) =>
        /\ "syntax error" \in errout
        /\ pc # "solved" \/ ~solve_flag

\* '-' or NOT at the start, or right after an operator or an open parenthesis
IsUnary(ts, k) ==
    /\ ts[k].type \in {"T_MINUS", "T_NOT"}
    /\ k = 1 \/ ts[k - 1].type \in OperatorTypes \cup {"T_OPAREN"}
IsBinary(ts, k) ==
    /\ ts[k].type \in {"T_MINUS", "T_NOT"}
    /\ ~IsUnary(ts, k)

\* C5: the Value convert emits for a '-' or NOT carries its arity, so the
\* Value of a unary one differs from the Value of a binary one; "-3 + 5"
\* evaluates to 2 and "3 - -5" to 8.
C5_Arity ==
    /\ (pc = "converted" /\ \A k \in 1..Len(toks) : toks[k].type \in InfixTypes) =>
          \A j, k \in 1..Len(toks) :
              (IsUnary(toks, j) /\ IsBinary(toks, k)) =>
                  AsValue([type |-> heap[j].ttype, str |-> heap[j].name])
                      # AsValue([type |-> heap[k].ttype, str |-> heap[k].name])
    /\ (pc = "solved" /\ solve_flag /\ line.text = Line_neg) => printed = <<2>>
    /\ (pc = "solved" /\ solve_flag /\ line.text = Line_subneg) => printed = <<8>>

---------------------------------------------------------------------------
(* The evaluator's claims. *)

Solved == pc = "solved" /\ solve_flag

\* C6: when solve has consumed the postfix sequence it has printed the one
\* entry left on its stack or it has reported a syntax error; for "1 2",
\* which leaves two entries, it has reported a syntax error.
C6_OneResult ==
    Solved =>
        /\ printed # <<>> \/ "syntax error" \in errout
        /\ line.text = Line_two => "syntax error" \in errout

\* C7: once "x = 5" has been solved the variable table holds x, and a later
\* "x + 1" evaluates to 6.
C7_Persists ==
    /\ setx_solved => values # "NULL"
    /\ (Solved /\ setx_solved /\ line.text = Line_getx) => printed = <<6>>

\* C8: while no variable has been assigned, no lookup yields a value: the
\* ".p var" command prints none, and solving "y + 1" reports an undefined
\* variable.
C8_NotFound ==
    values = "NULL" =>
        /\ printed = <<>>
        /\ (Solved /\ line.text = Line_gety) => "undefined variable" \in errout

\* C9: solving "1 / 0" or "1 % 0" reports a division by zero and prints no
\* result.
C9_DivZero ==
    (Solved /\ line.text \in {Line_div0, Line_mod0}) =>
        /\ "division by zero" \in errout
        /\ printed = <<>>


---------------------------------------------------------------------------
(* More of the tokenizer's claims. *)

\* a text of digits with at most one '.', which strtod reads whole
ValidNumber(str) == str_to_num(str).message = "none"

\* C11: a run of digits and '.' that is no valid number, such as "1.2.3",
\* gives no T_NUM token: every T_NUM token holds a valid number, and a line
\* with such a run has an error reported.
C11_MalformedNumber ==
    Converting =>
        /\ \A k \in 1..Len(toks) : toks[k].type = "T_NUM" => ValidNumber(toks[k].str)
        /\ (pc = "converted" /\ line.text = Line_twodots) => errout # {}


\* C12: when only blanks, or nothing, lie between the cursor and the end of
\* the buffer, consume_token gives T_END_BUF with an empty text and leaves
\* the cursor at len; a further call gives T_END_BUF again and leaves the
\* cursor where it is; and convert's loop ends at the first T_END_BUF.
C12_EndOfBuffer ==
    [][/\ (pc = "convert" /\ FirstNonBlank = buffer.len) =>
            /\ tok' = Token("T_END_BUF", <<>>)
            /\ buffer'.idx = buffer.len
            /\ consume_token(buffer', buffer'.idx) = Scan("T_END_BUF", <<>>, buffer.len)
       /\ (pc = "convert" /\ tok'.type = "T_END_BUF") =>
            /\ pc' = "converted"
            /\ toks' = toks
      ]_vars

\* convert has ended on a line of a token and a trailing blank
C12_Witness ==
    /\ pc = "converted"
    /\ tok = Token("T_END_BUF", <<>>)
    /\ Len(toks) = 1
    /\ buffer.len = 2
    /\ buffer.buf[2] = ch_space
    /\ buffer.idx = buffer.len


---------------------------------------------------------------------------
(* The precedence table's claim. *)

\* the precedence the operator table gives the k-th token of ts
TablePrecedence(ts, k) ==
    LET t == ts[k].type
    IN  CASE IsUnary(ts, k) -> 7
          [] t = "T_OR" -> 1
          [] t = "T_AND" -> 2
          [] t \in {"T_EQU", "T_NEQU"} -> 3
          [] t \in {"T_LT", "T_GT", "T_LTE", "T_GTE"} -> 4
          [] t \in {"T_PLUS", "T_MINUS"} -> 5
          [] t \in {"T_STAR", "T_SLASH", "T_PERC"} -> 6
          [] t = "T_CARAT" -> 8
          [] OTHER -> 0

\* C14: for every operator token of the line, precedence of its type is the
\* precedence of the operator table: 7 for a unary '-' or a NOT, 5 for a
\* binary '-'.
C14_Precedence ==
    Converting =>
        \A k \in 1..Len(toks) :
            toks[k].type \in OperatorTypes =>
                precedence(toks[k].type) = TablePrecedence(toks, k)


---------------------------------------------------------------------------
(* The value repository's claims. *)

\* C15: the repo convert has built with append gives its Values back in the
\* order of the appends: reset and then get until NULL returns the Value of
\* each token of the line, first to last, and NULL after the last.
C15_QueueOrder ==
    pc = "converted" =>
        Queue(repo, heap) = [k \in 1..Len(toks) |->
                                [ttype |-> toks[k].type, name |-> toks[k].str]]

\* A client of the repo as a stack: it pushes a Value it has just created
\* or one it has popped, pops, and peeks, in any order.
InitStack ==
    /\ input = <<>>
    /\ buffer = create_buf
    /\ tok = [type |-> "none", str |-> <<>>]
    /\ solve_flag = TRUE
    /\ pc = "stack"
    /\ line = NullLine
    /\ expr = "NULL"
    /\ values = "NULL"
    /\ repo = create_repo
    /\ heap = <<>>
    /\ toks = <<>>
    /\ printed = <<>>
    /\ errout = {}
    /\ setx_solved = FALSE
    /\ stack = <<>>
    /\ ret = NoCall

\* the top of the history stack, NULL when it is empty
Top == IF stack = <<>> THEN NULL ELSE Head(stack)
OnStack == {stack[k] : k \in 1..Len(stack)}
StackUnchanged == UNCHANGED <<input, buffer, tok, solve_flag, pc, line, expr, values,
                              toks, printed, errout, setx_solved>>

PushNew ==
    /\ Len(heap) < MaxValues
    /\ LET hp == create_value(heap, "T_NUM", <<49>>)
           p  == push(repo, hp, Len(hp))
       IN  /\ repo' = p.repo
           /\ heap' = p.heap
           /\ stack' = <<Len(hp)>> \o stack
           /\ ret' = [op |-> "push", val |-> Len(hp), top |-> Top]
    /\ StackUnchanged

PushAgain ==
    /\ \E val \in (1..Len(heap)) \ OnStack :
          LET p == push(repo, heap, val)
          IN  /\ repo' = p.repo
              /\ heap' = p.heap
              /\ stack' = <<val>> \o stack
              /\ ret' = [op |-> "push", val |-> val, top |-> Top]
    /\ StackUnchanged

Pop ==
    /\ repo' = pop(repo, heap).repo
    /\ ret' = [op |-> "pop", val |-> pop(repo, heap).val, top |-> Top]
    /\ stack' = IF stack = <<>> THEN <<>> ELSE Tail(stack)
    /\ UNCHANGED heap
    /\ StackUnchanged

Peek ==
    /\ ret' = [op |-> "peek", val |-> peek(repo), top |-> Top]
    /\ UNCHANGED <<repo, heap, stack>>
    /\ StackUnchanged

NextStack == PushNew \/ PushAgain \/ Pop \/ Peek

SpecStack == InitStack /\ [][NextStack]_vars

\* the Values from the head of the repo along next, to NULL or to a next
\* that was never set, n at most
RECURSIVE Chain(_, _, _)
Chain(at, hp, n) ==
    IF at = NULL \/ at = UNINIT \/ n = 0 THEN <<>>
    ELSE <<at>> \o Chain(hp[at].next, hp, n - 1)

\* C16: after any pushes and pops of Values that are not NULL, the repo
\* holds the Values pushed and not yet popped, the last pushed at the head;
\* pop and peek return the last of them, and NULL when there is none; peek,
\* and pop of an empty repo, leave the repo as it was.
C16_Stack ==
    pc = "stack" =>
        /\ Chain(repo.head, heap, Len(heap) + 1) = stack
        /\ ret.op \in {"pop", "peek"} => ret.val = ret.top
        /\ ret.op = "peek" => repo.head = ret.top
        /\ (ret.op = "pop" /\ ret.top = NULL) => repo = create_repo /\ stack = <<>>

\* three Values pushed, one popped, one peeked at, and the repo emptied
C16_Witness ==
    /\ pc = "stack"
    /\ Len(heap) >= 3
    /\ stack = <<>>
    /\ ret = [op |-> "pop", val |-> NULL, top |-> NULL]


---------------------------------------------------------------------------
(* The tokenizer's progress. *)

\* the number of characters of the token that starts at idx p of the buffer
TokenLength(p) == Len(RefTokens(Drop(buffer.buf, p))[1].str)

\* C17: a call of consume_token that gives a token other than T_END_BUF
\* leaves the cursor further on than it found it, just past the blanks it
\* skipped and the characters of the token; the calls made on a line are
\* never more than the cursor's idx, which is never more than len; and
\* convert's loop, once entered, ends.
C17_Progress ==
    /\ [][(pc = "convert" /\ tok'.type # "T_END_BUF" /\ toks' # toks) =>
             /\ buffer'.idx > buffer.idx
             /\ buffer'.idx = FirstNonBlank + TokenLength(FirstNonBlank)
             /\ buffer'.idx <= buffer.len
             /\ toks' = Append(toks, tok')
          ]_vars
    /\ [](Converting => (Len(toks) <= buffer.idx /\ buffer.idx <= buffer.len))
    /\ (pc = "convert" ~> pc # "convert")

\* convert's loop has ended after a token per character of the line, the
\* last of them an error token
C17_Witness ==
    /\ pc = "converted"
    /\ buffer.len = MaxLen
    /\ Len(toks) = buffer.len
    /\ toks[Len(toks)].type = "T_ERROR"


\* C18: consume_token gives T_END_BUF only with the cursor at len: whatever
\* characters the buffer holds, the byte 0xFF among them, convert's loop
\* ends with every character of the line read.
C18_EndOnlyAtEnd ==
    (Converting /\ tok.type = "T_END_BUF") => buffer.idx = buffer.len


\* C19: the text of a token fits consume_token's buf with its NUL: the run
\* of letters, or of digits and '.', that consume_token is about to read is
\* shorter than buf, and so is the text of every token it has given.
C19_TextFits ==
    /\ pc = "convert" => Len(NextTok.str) < TokBufSize
    /\ Converting => \A k \in 1..Len(toks) : Len(toks[k].str) < TokBufSize


---------------------------------------------------------------------------
(* The input buffer's claim. *)

\* A client of the buffer: after create_buf it calls reset_buf, load_buf
\* with any string, read_char and consume_char, in any order.
InitBuf ==
    /\ input = <<>>
    /\ buffer = create_buf
    /\ tok = [type |-> "none", str |-> <<>>]
    /\ solve_flag = TRUE
    /\ pc = "buf"
    /\ line = NullLine
    /\ expr = "NULL"
    /\ values = "NULL"
    /\ repo = create_repo
    /\ heap = <<>>
    /\ toks = <<>>
    /\ printed = <<>>
    /\ errout = {}
    /\ setx_solved = FALSE
    /\ stack = <<>>
    /\ ret = NoCall

BufUnchanged == UNCHANGED <<input, tok, solve_flag, pc, line, expr, values, repo, heap,
                            toks, printed, errout, setx_solved, stack>>

ResetBuf ==
    /\ buffer' = reset_buf(buffer)
    /\ ret' = [op |-> "reset_buf", val |-> 0, top |-> -1]
    /\ BufUnchanged

LoadBuf ==
    /\ \E n \in 0..(MaxBufLen - buffer.len) :
          buffer' = load_buf(buffer, [k \in 1..n |-> 97])
    /\ ret' = [op |-> "load_buf", val |-> 0, top |-> -1]
    /\ BufUnchanged

ReadChar ==
    /\ ret' = [op |-> "read_char", val |-> read_char(buffer, buffer.idx),
               top |-> index_read(buffer, buffer.idx)]
    /\ UNCHANGED buffer
    /\ BufUnchanged

ConsumeChar ==
    /\ buffer' = [buffer EXCEPT !.idx = consume_char(buffer, buffer.idx)]
    /\ ret' = [op |-> "consume_char", val |-> read_char(buffer, buffer.idx),
               top |-> index_read(buffer, buffer.idx)]
    /\ BufUnchanged

NextBuf == ResetBuf \/ LoadBuf \/ ReadChar \/ ConsumeChar

SpecBuf == InitBuf /\ [][NextBuf]_vars

IsPowerOfTwo(n) == \E k \in 0..n : 2 ^ k = n

\* C20: after create_buf and any calls of reset_buf, load_buf, read_char
\* and consume_char, idx is from 0 to len, the text and one byte more fit
\* in cap, and cap is a power of two, 8 at least; cap never gets smaller;
\* reset_buf leaves idx and len 0 and cap as it was; and read_char and
\* consume_char read buf at an index below len or not at all.
C20_BufferBounds ==
    /\ [](pc = "buf" =>
            /\ 0 <= buffer.idx /\ buffer.idx <= buffer.len
            /\ buffer.len + 1 <= buffer.cap
            /\ buffer.cap >= InitialCap /\ IsPowerOfTwo(buffer.cap)
            /\ Len(buffer.buf) = buffer.len
            /\ ret.op \in {"read_char", "consume_char"} =>
                  ret.top = -1 \/ (0 <= ret.top /\ ret.top < buffer.len))
    /\ [][pc = "buf" =>
            /\ buffer'.cap >= buffer.cap
            /\ ret'.op = "reset_buf" =>
                  buffer'.idx = 0 /\ buffer'.len = 0 /\ buffer'.cap = buffer.cap
         ]_vars

\* the buffer has grown past twice its first cap, has been read to its end
\* and reset
C20_Witness ==
    /\ pc = "buf"
    /\ buffer.cap > 2 * InitialCap
    /\ buffer.len = 0
    /\ buffer.idx = 0
    /\ ret.op = "reset_buf"


---------------------------------------------------------------------------
(* The main loop's claim. *)

\* C21: convert and solve run only on a line readline returned that is no
\* command and no quit, with that line loaded in the buffer; and when
\* readline returns NULL, at the end of the input, the loop ends: main does
\* not go on to load_buf with the NULL line.
C21_NullLine ==
    /\ [](pc \in {"convert", "converted", "solved"} =>
            /\ ~line.null
            /\ IsExpression(line.text)
            /\ buffer.buf = line.text)
    /\ [][(pc = "readline" /\ input = <<>>) => pc' = "done"]_vars

====
